---- MODULE Spec2Model ----
(***************************************************************************)
(* A model of app.py: the layered configuration resolver                   *)
(* (AppConfig.from_env over os.environ and the module-level ConfigParser), *)
(* the application factory create_app with its /reload-config handler, and *)
(* the JSON provider CustomJSONProvider.default.                           *)
(*                                                                         *)
(* Python values are tagged records [t |-> <type>, v |-> <payload>]; a     *)
(* raised exception is the value [t |-> "raise", v |-> <exception type>].  *)
(***************************************************************************)
EXTENDS Integers, Sequences, FiniteSets, TLC

VARIABLES
    os_file,        \* configs/app_config.ini on disk: [readable, sections]
    os_environ,     \* the process environment: variable name -> text or None
    config,         \* app.py:13-14, the module-level ConfigParser (section -> option -> text)
    ENV,            \* app.py:15, the module-level section name
    phase,          \* "boot" before create_app ran, "serving" once `app` exists, "failed" when the import raised
    app_config,     \* app.config, Flask's config dict (key -> Python value)
    root_handlers,  \* whether logging's root logger has a handler (none in a fresh interpreter)
    root_level,     \* the root logger's level name
    bound,          \* the (host, port) runserver read for its server socket, or NotBound
    response,       \* the last HTTP response: [route, status]
    pc,             \* per request thread: where it is in reload_config
    local,          \* per request thread: the AppConfig it resolved (app_config, app.py:98)
    history,        \* every call of from_env so far: [env, out, before]
    changes,        \* how many times the surroundings (environment, file) changed
    obj,            \* the object handed to CustomJSONProvider.default
    out             \* what default returned or raised for obj

vars == <<os_file, os_environ, config, ENV, phase, app_config, root_handlers,
          root_level, bound, response, pc, local, history, changes, obj, out>>

-----------------------------------------------------------------------------
(* Bounds of the model.                                                    *)

MaxChanges == 2     \* changes of the environment and the file in one run
MaxReloads == 1     \* sequential POST /reload-config calls in one run
NumThreads == 2     \* concurrent request threads
MaxRows == 2        \* rows of a DataFrame
MaxLen == 2         \* elements of an ndarray

-----------------------------------------------------------------------------
(* Python values.                                                          *)

None == "<None>"
PyStr(s) == [t |-> "str", v |-> s]
PyInt(n) == [t |-> "int", v |-> n]
PyBool(b) == [t |-> "bool", v |-> b]
PyNone == [t |-> "NoneType"]
Raise(e) == [t |-> "raise", v |-> e]
EmptyMap == [k \in {} |-> None]

(* The characters of the texts the model draws for numeric fields.         *)
Chars ==
    "8080" :> <<"8", "0", "8", "0">> @@ "5000" :> <<"5", "0", "0", "0">> @@
    "70000" :> <<"7", "0", "0", "0", "0">> @@ "0" :> <<"0">> @@
    "abc" :> <<"a", "b", "c">> @@ "-1" :> <<"-", "1">>

DigitVal ==
    "0" :> 0 @@ "1" :> 1 @@ "2" :> 2 @@ "3" :> 3 @@ "4" :> 4 @@
    "5" :> 5 @@ "6" :> 6 @@ "7" :> 7 @@ "8" :> 8 @@ "9" :> 9

RECURSIVE DigitsToInt(_)
DigitsToInt(cs) ==
    IF cs = <<>> THEN 0
    ELSE 10 * DigitsToInt(SubSeq(cs, 1, Len(cs) - 1)) + DigitVal[cs[Len(cs)]]

IsDigits(cs) == Len(cs) > 0 /\ \A i \in 1..Len(cs) : cs[i] \in DOMAIN DigitVal

(* int(text): an optional sign and decimal digits, else ValueError.        *)
ParseInt(s) ==
    LET cs == Chars[s]
        neg == Len(cs) > 0 /\ cs[1] = "-"
        ds == IF neg THEN Tail(cs) ELSE cs
    IN  IF IsDigits(ds)
        THEN [ok |-> TRUE, v |-> IF neg THEN 0 - DigitsToInt(ds) ELSE DigitsToInt(ds)]
        ELSE [ok |-> FALSE, v |-> 0]

(* str.lower() on the texts the model draws for boolean fields.            *)
Lower(s) ==
    CASE s = "TRUE" -> "true"
      [] s = "On" -> "on"
      [] OTHER -> s

-----------------------------------------------------------------------------
(* Config Source: the environment and the parsed .ini file.                *)

Fields == {"ENV", "DEBUG", "HOST", "PORT", "LOGGING_LEVEL"}

(* ConfigParser.read skips a file it cannot open and leaves the parser     *)
(* without sections.                                                       *)
read(file) == IF file.readable THEN file.sections ELSE EmptyMap

RereadSections == read(os_file)
(* The parser from_env consults: the module-level snapshot.                *)
ConfigSections == config

(* An option is read from the section named; the parser's [DEFAULT]        *)
(* section and value interpolation are not used by the files drawn here.   *)
has_option(section, option) ==
    /\ section \in DOMAIN ConfigSections
    /\ option \in DOMAIN ConfigSections[section]

config_get_nofallback(section, option, fallback) ==
    IF has_option(section, option)
    THEN PyStr(ConfigSections[section][option])
    ELSE Raise("NoSectionError")
(* config.get(section, option, fallback=...)                               *)
config_get(section, option, fallback) ==
    IF has_option(section, option)
    THEN PyStr(ConfigSections[section][option])
    ELSE fallback

(* ConfigParser.BOOLEAN_STATES                                             *)
ParserTrue == {"1", "yes", "true", "on"}
ParserFalse == {"0", "no", "false", "off"}

(* config.getboolean(section, option, fallback=...): a present option that *)
(* is no boolean word raises ValueError; an absent one yields the fallback *)
(* as given.                                                               *)
config_getboolean(section, option, fallback) ==
    IF has_option(section, option)
    THEN LET s == Lower(ConfigSections[section][option])
         IN  IF s \in ParserTrue THEN PyBool(TRUE)
             ELSE IF s \in ParserFalse THEN PyBool(FALSE)
             ELSE Raise("ValueError")
    ELSE fallback

(* config.getint(section, option, fallback=...)                            *)
config_getint(section, option, fallback) ==
    IF has_option(section, option)
    THEN LET p == ParseInt(ConfigSections[section][option])
         IN  IF p.ok THEN PyInt(p.v) ELSE Raise("ValueError")
    ELSE fallback

(* os.getenv(name, default): default is a value computed by the caller     *)
(* before the call.                                                        *)
os_getenv(name, default) ==
    IF os_environ[name] # None THEN PyStr(os_environ[name]) ELSE default

-----------------------------------------------------------------------------
(* AppConfig: the pydantic model's field validation (lax mode).            *)

PydanticTrue == {"1", "on", "t", "true", "y", "yes"}
PydanticFalse == {"0", "off", "f", "false", "n", "no"}

validate_str(x) ==
    IF x.t = "str" THEN [ok |-> TRUE, v |-> x.v] ELSE [ok |-> FALSE, v |-> None]

validate_bool(x) ==
    IF x.t = "bool" THEN [ok |-> TRUE, v |-> x.v]
    ELSE IF x.t = "str" /\ Lower(x.v) \in PydanticTrue THEN [ok |-> TRUE, v |-> TRUE]
    ELSE IF x.t = "str" /\ Lower(x.v) \in PydanticFalse THEN [ok |-> TRUE, v |-> FALSE]
    ELSE [ok |-> FALSE, v |-> FALSE]

validate_int(x) ==
    IF x.t = "int" THEN [ok |-> TRUE, v |-> x.v]
    ELSE IF x.t = "str" THEN ParseInt(x.v)
    ELSE [ok |-> FALSE, v |-> 0]

(* AppConfig(ENV=..., DEBUG=..., HOST=..., PORT=..., LOGGING_LEVEL=...):   *)
(* the validated model, or ValidationError.                                *)
AppConfig(env, debug, host, port, level) ==
    LET e == validate_str(env)
        d == validate_bool(debug)
        h == validate_str(host)
        p == validate_int(port)
        l == validate_str(level)
    IN  IF e.ok /\ d.ok /\ h.ok /\ p.ok /\ l.ok
        THEN [ok |-> TRUE,
              cfg |-> [ENV |-> e.v, DEBUG |-> d.v, HOST |-> h.v, PORT |-> p.v,
                       LOGGING_LEVEL |-> l.v]]
        ELSE [ok |-> FALSE, err |-> "ValidationError"]

(* AppConfig.from_env(): every config.get* default is evaluated before the *)
(* os.getenv it is passed to, in argument order.                           *)
from_env ==
    LET e == config_get(ENV, "env", PyStr("dev"))
        d == config_getboolean(ENV, "debug", PyStr("false"))
        h == config_get(ENV, "host", PyStr("127.0.0.1"))
        p == config_getint(ENV, "port", PyInt(5000))
        l == config_get(ENV, "logging_level", PyStr("INFO"))
        raised == {x \in {e, d, h, p, l} : x.t = "raise"}
    IN  IF raised # {}
        THEN [ok |-> FALSE, err |-> (CHOOSE x \in raised : TRUE).v]
        ELSE AppConfig(os_getenv("ENV", e), os_getenv("DEBUG", d),
                       os_getenv("HOST", h), os_getenv("PORT", p),
                       os_getenv("LOGGING_LEVEL", l))

-----------------------------------------------------------------------------
(* logging: the root logger.                                               *)

(* logging._nameToLevel                                                    *)
LevelNames == {"CRITICAL", "FATAL", "ERROR", "WARN", "WARNING", "INFO", "DEBUG", "NOTSET"}

(* logging.basicConfig(level=level, format=...): does nothing when the     *)
(* root logger already has a handler; otherwise adds one and then sets the *)
(* level, which raises ValueError for an unknown level name.               *)
basicConfig(handlers, current, level) ==
    IF handlers
    THEN [handlers |-> TRUE, level |-> current, raised |-> FALSE]
    ELSE IF level \in LevelNames
    THEN [handlers |-> TRUE, level |-> level, raised |-> FALSE]
    ELSE [handlers |-> TRUE, level |-> current, raised |-> TRUE]

(* setup_logging(level): basicConfig, then one logging.info record.        *)
setup_logging(handlers, current, level) == basicConfig(handlers, current, level)

-----------------------------------------------------------------------------
(* Value Model and Encoder: CustomJSONProvider.default.                    *)
(* Texts produced by the encoder are sequences of characters.              *)

PyFloat(x) == [t |-> "float", v |-> x]    \* x counts hundredths
PyList(s) == [t |-> "list", v |-> s]
PyDict(items) == [t |-> "dict", v |-> items]    \* items: sequence of <<key, value>>

Digit == <<"0", "1", "2", "3", "4", "5", "6", "7", "8", "9">>
Pad2(n) == <<Digit[((n \div 10) % 10) + 1], Digit[(n % 10) + 1]>>
Pad4(n) == Pad2(n \div 100) \o Pad2(n % 100)

(* Timestamp.isoformat() of a naive instant without fractional seconds.    *)
isoformat(ts) ==
    Pad4(ts.date[1]) \o <<"-">> \o Pad2(ts.date[2]) \o <<"-">> \o Pad2(ts.date[3])
    \o <<"T">> \o Pad2(ts.time[1]) \o <<":">> \o Pad2(ts.time[2]) \o <<":">>
    \o Pad2(ts.time[3])

(* ndarray.tolist(): the elements as native numbers, in order.             *)
tolist(a) == PyList([i \in 1..Len(a.v) |-> PyInt(a.v[i])])

(* numpy scalar .item(): the native number of the same kind.               *)
item(x) == IF x.t = "np.integer" THEN PyInt(x.v) ELSE PyFloat(x.v)

NRows(df) == IF Len(df.columns) = 0 THEN 0 ELSE Len(df.data[df.columns[1]])

to_dict_columns(df) ==
    PyList([j \in 1..Len(df.columns) |->
        PyDict([i \in 1..NRows(df) |-> <<i, PyInt(df.data[df.columns[j]][i])>>])])
(* DataFrame.to_dict(orient="records"): one dict per row, its keys the     *)
(* columns in column order, its values the cells as native numbers.        *)
to_dict_records(df) ==
    PyList([i \in 1..NRows(df) |->
        PyDict([j \in 1..Len(df.columns) |->
            <<df.columns[j], PyInt(df.data[df.columns[j]][i])>>])])

(* DefaultJSONProvider.default (Flask): date -> HTTP date text, Decimal    *)
(* and UUID -> str(o), dataclass -> dict, __html__ -> its text, anything   *)
(* else TypeError.                                                         *)
Weekday(y, m, d) ==
    LET yy == IF m < 3 THEN y - 1 ELSE y
        mm == IF m < 3 THEN m + 12 ELSE m
    IN  (d + ((13 * (mm + 1)) \div 5) + yy + (yy \div 4) - (yy \div 100) + (yy \div 400)) % 7

DayName == <<<<"S", "a", "t">>, <<"S", "u", "n">>, <<"M", "o", "n">>, <<"T", "u", "e">>,
             <<"W", "e", "d">>, <<"T", "h", "u">>, <<"F", "r", "i">>>>
MonthName == <<<<"J", "a", "n">>, <<"F", "e", "b">>, <<"M", "a", "r">>, <<"A", "p", "r">>,
               <<"M", "a", "y">>, <<"J", "u", "n">>, <<"J", "u", "l">>, <<"A", "u", "g">>,
               <<"S", "e", "p">>, <<"O", "c", "t">>, <<"N", "o", "v">>, <<"D", "e", "c">>>>

http_date(o) ==
    DayName[Weekday(o.date[1], o.date[2], o.date[3]) + 1] \o <<",", " ">>
    \o Pad2(o.date[3]) \o <<" ">> \o MonthName[o.date[2]] \o <<" ">> \o Pad4(o.date[1])
    \o <<" ", "0", "0", ":", "0", "0", ":", "0", "0", " ", "G", "M", "T">>

DefaultJSONProvider_default(o) ==
    CASE o.t = "date" -> PyStr(http_date(o))
      [] o.t \in {"Decimal", "UUID"} -> PyStr(o.v)
      [] o.t = "dataclass" -> PyDict(o.v)
      [] o.t = "Markup" -> PyStr(o.v)
      [] OTHER -> Raise("TypeError")

default_stringify(o) ==
    CASE o.t = "ndarray" -> tolist(o)
      [] o.t \in {"np.integer", "np.floating"} -> item(o)
      [] o.t = "Timestamp" -> PyStr(isoformat(o))
      [] o.t = "DataFrame" -> to_dict_records(o)
      [] OTHER -> PyStr(<<"<", o.t, ">">>)
(* CustomJSONProvider.default(obj)                                         *)
default(o) ==
    CASE o.t = "ndarray" -> tolist(o)
      [] o.t \in {"np.integer", "np.floating"} -> item(o)
      [] o.t = "Timestamp" -> PyStr(isoformat(o))
      [] o.t = "DataFrame" -> to_dict_records(o)
      [] OTHER -> DefaultJSONProvider_default(o)

(* The types json.dumps writes without asking the provider's default;      *)
(* numpy.float64 is a float.                                               *)
Native(x) == x.t \in {"str", "int", "float", "np.floating", "bool", "NoneType", "list", "dict"}

(* jsonify(mapping): TypeError as soon as a value is neither native nor    *)
(* converted by default.                                                   *)
jsonify_raises(mapping) ==
    \E k \in DOMAIN mapping : ~Native(mapping[k]) /\ default(mapping[k]).t = "raise"

-----------------------------------------------------------------------------
(* The inputs the model draws.                                             *)

EnvNames == Fields \cup {"FLASK_ENV"}

EnvRaw(name) ==
    CASE name = "FLASK_ENV" -> {"prod"}
      [] name = "ENV" -> {"prod"}
      [] name = "DEBUG" -> {"TRUE", "maybe"}
      [] name = "HOST" -> {"0.0.0.0"}
      [] name = "PORT" -> {"8080", "70000", "abc"}
      [] name = "LOGGING_LEVEL" -> {"DEBUG", "BOGUS"}

Options == {"env", "debug", "host", "port", "logging_level"}

(* The lower-case option a field is stored under in the file.              *)
Option(f) ==
    CASE f = "ENV" -> "env"
      [] f = "DEBUG" -> "debug"
      [] f = "HOST" -> "host"
      [] f = "PORT" -> "port"
      [] f = "LOGGING_LEVEL" -> "logging_level"

FileRaw(option) ==
    CASE option = "env" -> {"staging"}
      [] option = "debug" -> {"On", "maybe"}
      [] option = "host" -> {"10.0.0.1"}
      [] option = "port" -> {"5000", "abc"}
      [] option = "logging_level" -> {"WARNING"}

Restrict(f, S) == [k \in S |-> f[k]]

(* Every section body: each option absent or one of its texts.             *)
SectionBodies ==
    {Restrict(g, {o \in Options : g[o] # None}) :
        g \in {[env |-> e, debug |-> d, host |-> h, port |-> p, logging_level |-> l] :
                  e \in FileRaw("env") \cup {None}, d \in FileRaw("debug") \cup {None},
                  h \in FileRaw("host") \cup {None}, p \in FileRaw("port") \cup {None},
                  l \in FileRaw("logging_level") \cup {None}}}

Unreadable == [readable |-> FALSE, sections |-> EmptyMap]
File(section, body) == [readable |-> TRUE, sections |-> (section :> body)]

(* The documented file: one [dev] section with every option.               *)
DevFile ==
    File("dev", [env |-> "staging", debug |-> "On", host |-> "10.0.0.1",
                 port |-> "5000", logging_level |-> "WARNING"])
BadFile == File("dev", [debug |-> "maybe", port |-> "abc"])

MainFiles == {Unreadable, DevFile, BadFile}
ResolveFiles == {Unreadable} \cup {File(sec, b) : sec \in {"dev", "prod"}, b \in SectionBodies}

Environments ==
    {[FLASK_ENV |-> s, ENV |-> e, DEBUG |-> d, HOST |-> h, PORT |-> p, LOGGING_LEVEL |-> l] :
        s \in EnvRaw("FLASK_ENV") \cup {None}, e \in EnvRaw("ENV") \cup {None},
        d \in EnvRaw("DEBUG") \cup {None}, h \in EnvRaw("HOST") \cup {None},
        p \in EnvRaw("PORT") \cup {None}, l \in EnvRaw("LOGGING_LEVEL") \cup {None}}

CleanEnvironments == {e \in Environments : \A f \in Fields : e[f] = None}

-----------------------------------------------------------------------------
(* The application.                                                        *)

Threads == 1..NumThreads

(* Flask(__name__).config: the framework's defaults, among them            *)
(* PERMANENT_SESSION_LIFETIME, a datetime.timedelta of 31 days.            *)
FlaskDefaults ==
    [DEBUG |-> PyNone, TESTING |-> PyBool(FALSE), SECRET_KEY |-> PyNone,
     PERMANENT_SESSION_LIFETIME |-> [t |-> "timedelta", v |-> 31]]

(* app_config.model_dump(): the five fields as Python values.              *)
model_dump(cfg) ==
    [ENV |-> PyStr(cfg.ENV), DEBUG |-> PyBool(cfg.DEBUG), HOST |-> PyStr(cfg.HOST),
     PORT |-> PyInt(cfg.PORT), LOGGING_LEVEL |-> PyStr(cfg.LOGGING_LEVEL)]

update_all_but_port(conf, d) ==
    [k \in DOMAIN conf \cup DOMAIN d |->
        IF k \in DOMAIN d /\ ~(k = "PORT" /\ k \in DOMAIN conf) THEN d[k] ELSE conf[k]]
(* app.config.update(d): dict.update, one call that sets every key of d.   *)
update(conf, d) ==
    [k \in DOMAIN conf \cup DOMAIN d |-> IF k \in DOMAIN d THEN d[k] ELSE conf[k]]

(* The five configuration fields of app.config, as plain values.           *)
Active(conf) ==
    [ENV |-> conf["ENV"].v, DEBUG |-> conf["DEBUG"].v, HOST |-> conf["HOST"].v,
     PORT |-> conf["PORT"].v, LOGGING_LEVEL |-> conf["LOGGING_LEVEL"].v]

NotBound == <<>>
NoResponse == [route |-> "", status |-> 0]
NoLocal == [ok |-> FALSE]
NotEncoded == [t |-> "not encoded"]
NoObject == [t |-> "no object"]
Resp(route, status) == [route |-> route, status |-> status]

(* One call of from_env, as the history keeps it.                          *)
Call(op, r) ==
    [op |-> op, env |-> Restrict(os_environ, Fields), out |-> r, before |-> app_config]

create_app_swallows(r, lg) == TRUE
(* create_app returns the app only when neither from_env nor setup_logging *)
(* raised: the except clause re-raises, and any other exception leaves     *)
(* create_app as well.                                                     *)
create_app_returns(r, lg) == r.ok /\ ~lg.raised

(* What logging does when from_env raised in create_app: logging.error in  *)
(* the ValidationError handler installs a root handler if there is none.   *)
NoLogging(r) ==
    [handlers |-> (root_handlers \/ (phase = "boot" /\ r.err = "ValidationError")),
     level |-> root_level, raised |-> FALSE]

(* app = create_app(), at import.                                          *)
CreateApp ==
    /\ phase = "boot"
    /\ LET r == from_env
           conf == IF r.ok THEN update(app_config, model_dump(r.cfg)) ELSE app_config
           lg == IF r.ok
                 THEN setup_logging(root_handlers, root_level, conf["LOGGING_LEVEL"].v)
                 ELSE NoLogging(r)
       IN  /\ history' = Append(history, Call("create_app", r))
           /\ app_config' = conf
           /\ root_handlers' = lg.handlers
           /\ root_level' = lg.level
           /\ phase' = IF create_app_returns(r, lg) THEN "serving" ELSE "failed"
    /\ UNCHANGED <<os_file, os_environ, config, ENV, bound, response, pc, local,
                   changes, obj, out>>

(* GET /                                                                   *)
Home ==
    /\ phase = "serving"
    /\ response' = Resp("/", 200)
    /\ UNCHANGED <<os_file, os_environ, config, ENV, phase, app_config, root_handlers,
                   root_level, bound, pc, local, history, changes, obj, out>>

(* GET /health                                                             *)
Health ==
    /\ phase = "serving"
    /\ response' = Resp("/health", 200)
    /\ UNCHANGED <<os_file, os_environ, config, ENV, phase, app_config, root_handlers,
                   root_level, bound, pc, local, history, changes, obj, out>>

(* The values get_data builds.                                             *)
response_data ==
    [array |-> [t |-> "ndarray", v |-> <<1, 2, 3>>],
     number |-> [t |-> "np.floating", v |-> 4242],
     timestamp |-> [t |-> "Timestamp", date |-> <<2023, 12, 18>>, time |-> <<10, 0, 0>>],
     dataframe |-> [t |-> "DataFrame", columns |-> <<"A", "B">>,
                    data |-> [A |-> <<1, 2>>, B |-> <<3, 4>>]]]

(* GET /data                                                               *)
GetData ==
    /\ phase = "serving"
    /\ response' = Resp("/data", IF jsonify_raises(response_data) THEN 500 ELSE 200)
    /\ UNCHANGED <<os_file, os_environ, config, ENV, phase, app_config, root_handlers,
                   root_level, bound, pc, local, history, changes, obj, out>>

(* POST /reload-config, run from start to end.                             *)
ReloadConfig ==
    /\ phase = "serving"
    /\ Len(history) <= MaxReloads
    /\ LET r == from_env
           conf == IF r.ok THEN update(app_config, model_dump(r.cfg)) ELSE app_config
           lg == IF r.ok
                 THEN setup_logging(root_handlers, root_level, conf["LOGGING_LEVEL"].v)
                 ELSE NoLogging(r)
           failed == ~r.ok \/ lg.raised \/ jsonify_raises(conf)
       IN  /\ history' = Append(history, Call("reload_config", r))
           /\ app_config' = conf
           /\ root_handlers' = lg.handlers
           /\ root_level' = lg.level
           /\ response' = Resp("/reload-config", IF failed THEN 500 ELSE 200)
    /\ UNCHANGED <<os_file, os_environ, config, ENV, phase, bound, pc, local,
                   changes, obj, out>>

(* flask runserver: reads HOST and PORT (then ENV and DEBUG) from          *)
(* app.config and starts the server on them.                               *)
Runserver ==
    /\ phase = "serving"
    /\ bound = NotBound
    /\ \A t \in Threads : pc[t] = "idle"
    /\ bound' = <<app_config["HOST"].v, app_config["PORT"].v>>
    /\ UNCHANGED <<os_file, os_environ, config, ENV, phase, app_config, root_handlers,
                   root_level, response, pc, local, history, changes, obj, out>>

(* The surroundings: a variable of the process environment is set or       *)
(* unset, or the file on disk is rewritten.                                *)
Setenv(name, value) ==
    /\ changes < MaxChanges
    /\ os_environ[name] # value
    /\ os_environ' = [os_environ EXCEPT ![name] = value]
    /\ changes' = changes + 1
    /\ UNCHANGED <<os_file, config, ENV, phase, app_config, root_handlers, root_level,
                   bound, response, pc, local, history, obj, out>>

WriteFile(file) ==
    /\ changes < MaxChanges
    /\ os_file # file
    /\ os_file' = file
    /\ changes' = changes + 1
    /\ UNCHANGED <<os_environ, config, ENV, phase, app_config, root_handlers, root_level,
                   bound, response, pc, local, history, obj, out>>

Surroundings ==
    \/ \E n \in EnvNames : \E v \in EnvRaw(n) \cup {None} : Setenv(n, v)
    \/ \E f \in MainFiles : WriteFile(f)

(* The state when app.py has run its lines 13-15 on a given file and       *)
(* environment.                                                            *)
Imported(file, env) ==
    /\ os_file = file
    /\ os_environ = env
    /\ config = read(file)
    /\ ENV = IF env["FLASK_ENV"] # None THEN env["FLASK_ENV"] ELSE "dev"
    /\ phase = "boot"
    /\ app_config = FlaskDefaults
    /\ root_level = "WARNING"
    /\ bound = NotBound
    /\ response = NoResponse
    /\ pc = [t \in Threads |-> "idle"]
    /\ local = [t \in Threads |-> NoLocal]
    /\ history = <<>>
    /\ changes = 0

Init ==
    /\ \E f \in MainFiles : \E e \in CleanEnvironments : Imported(f, e)
    /\ root_handlers = FALSE
    /\ obj = NoObject
    /\ out = NotEncoded

Next == CreateApp \/ Home \/ Health \/ GetData \/ ReloadConfig \/ Surroundings

Spec == Init /\ [][Next]_vars

-----------------------------------------------------------------------------
(* The threaded server: every request runs reload_config in a thread of    *)
(* its own, and the threads interleave between the handler's statements.   *)

Finish(t, status) ==
    /\ response' = Resp("/reload-config", status)
    /\ pc' = [pc EXCEPT ![t] = "done"]
    /\ local' = [local EXCEPT ![t] = NoLocal]

(* app_config = AppConfig.from_env()                                       *)
T_Resolve(t) ==
    /\ phase = "serving"
    /\ bound # NotBound
    /\ pc[t] = "idle"
    /\ LET r == from_env
       IN  /\ history' = Append(history, Call("reload_config", r))
           /\ IF r.ok
              THEN /\ pc' = [pc EXCEPT ![t] = "resolved"]
                   /\ local' = [local EXCEPT ![t] = r]
                   /\ UNCHANGED response
              ELSE Finish(t, 500)
    /\ UNCHANGED <<os_file, os_environ, config, ENV, phase, app_config, root_handlers,
                   root_level, bound, changes, obj, out>>

(* app.config.update(app_config.model_dump())                              *)
T_Install(t) ==
    /\ pc[t] = "resolved"
    /\ app_config' = update(app_config, model_dump(local[t].cfg))
    /\ pc' = [pc EXCEPT ![t] = "installed"]
    /\ UNCHANGED <<os_file, os_environ, config, ENV, phase, root_handlers, root_level,
                   bound, response, local, history, changes, obj, out>>

(* setup_logging(app.config["LOGGING_LEVEL"])                              *)
T_Logging(t) ==
    /\ pc[t] = "installed"
    /\ LET lg == setup_logging(root_handlers, root_level, app_config["LOGGING_LEVEL"].v)
       IN  /\ root_handlers' = lg.handlers
           /\ root_level' = lg.level
           /\ IF lg.raised
              THEN Finish(t, 500)
              ELSE /\ pc' = [pc EXCEPT ![t] = "logged"]
                   /\ UNCHANGED <<response, local>>
    /\ UNCHANGED <<os_file, os_environ, config, ENV, phase, app_config, bound, history,
                   changes, obj, out>>

(* return jsonify({..., "config": app.config}), 200, or the except clause  *)
T_Respond(t) ==
    /\ pc[t] = "logged"
    /\ Finish(t, IF jsonify_raises(app_config) THEN 500 ELSE 200)
    /\ UNCHANGED <<os_file, os_environ, config, ENV, phase, app_config, root_handlers,
                   root_level, bound, history, changes, obj, out>>

(* The address fields runserver reads are the ones the environment changes  *)
(* while requests are in flight.                                           *)
EnvChange == \E n \in {"HOST", "PORT"} : \E v \in EnvRaw(n) \cup {None} : Setenv(n, v)

NextThreads ==
    \/ CreateApp
    \/ Runserver
    \/ EnvChange
    \/ \E t \in Threads : T_Resolve(t) \/ T_Install(t) \/ T_Logging(t) \/ T_Respond(t)

InitThreads ==
    /\ \E f \in {Unreadable, DevFile} :
           Imported(f, CHOOSE e \in CleanEnvironments : e["FLASK_ENV"] = None)
    /\ root_handlers = FALSE
    /\ obj = NoObject
    /\ out = NotEncoded

SpecThreads == InitThreads /\ [][NextThreads]_vars

-----------------------------------------------------------------------------
(* The resolver alone, on every file and environment the model draws.      *)

InitResolve ==
    /\ \E f \in ResolveFiles : \E e \in Environments : Imported(f, e)
    /\ root_handlers = FALSE
    /\ obj = NoObject
    /\ out = NotEncoded

Resolve ==
    /\ history = <<>>
    /\ history' = <<Call("from_env", from_env)>>
    /\ UNCHANGED <<os_file, os_environ, config, ENV, phase, app_config, root_handlers,
                   root_level, bound, response, pc, local, changes, obj, out>>

SpecResolve == InitResolve /\ [][Resolve]_vars

-----------------------------------------------------------------------------
(* The encoder alone, on every object the model draws.                     *)

Range(s) == {s[i] : i \in 1..Len(s)}
ColumnOrders == {<<>>, <<"A">>, <<"B">>, <<"A", "B">>, <<"B", "A">>}
CellValues == 1..4

(* pd.DataFrame(dict of equally long columns)                              *)
DataFrames ==
    UNION {{[t |-> "DataFrame", columns |-> c, data |-> d] :
               d \in [Range(c) -> [1..n -> CellValues]]} :
           c \in ColumnOrders, n \in 0..MaxRows}

Arrays == {[t |-> "ndarray", v |-> s] : s \in UNION {[1..n -> 1..3] : n \in 0..MaxLen}}
Scalars ==
    {[t |-> "np.integer", v |-> n] : n \in 0..3}
    \cup {[t |-> "np.floating", v |-> x] : x \in {0, 4200, 4242}}
Timestamps ==
    {[t |-> "Timestamp", date |-> d, time |-> c] :
        d \in {<<2023, 12, 18>>, <<2024, 2, 29>>}, c \in {<<10, 0, 0>>, <<9, 5, 7>>}}

(* Objects Flask's own provider converts.                                  *)
FlaskHandled ==
    {[t |-> "date", date |-> d] : d \in {<<2023, 12, 18>>, <<2024, 2, 29>>}}
    \cup {[t |-> "Decimal", v |-> <<"1", ".", "5">>],
          [t |-> "UUID", v |-> <<"0", "0", "-", "a", "f">>],
          [t |-> "Markup", v |-> <<"<", "b", ">">>],
          [t |-> "dataclass", v |-> <<<<"x", PyInt(1)>>>>]}

(* Objects nobody converts.                                                *)
Unhandled ==
    {[t |-> "timedelta", v |-> 31], [t |-> "set", v |-> {1, 2}], [t |-> "object"],
     [t |-> "complex", v |-> <<1, 2>>], [t |-> "bytes", v |-> <<"a">>]}

Objects == Arrays \cup Scalars \cup Timestamps \cup DataFrames \cup FlaskHandled \cup Unhandled

InitEncode ==
    /\ Imported(Unreadable, CHOOSE e \in CleanEnvironments : e["FLASK_ENV"] = None)
    /\ root_handlers = FALSE
    /\ obj \in Objects
    /\ out = NotEncoded

(* json.dumps meets obj and calls the provider's default on it.            *)
Encode ==
    /\ out = NotEncoded
    /\ out' = default(obj)
    /\ UNCHANGED <<os_file, os_environ, config, ENV, phase, app_config, root_handlers,
                   root_level, bound, response, pc, local, history, changes, obj>>

SpecEncode == InitEncode /\ [][Encode]_vars

-----------------------------------------------------------------------------
(* Properties.                                                             *)

Last(h) == h[Len(h)]
Calls == 1..Len(history)
Defaults ==
    [ENV |-> "dev", DEBUG |-> FALSE, HOST |-> "127.0.0.1", PORT |-> 5000,
     LOGGING_LEVEL |-> "INFO"]
StandardLevels == {"DEBUG", "INFO", "WARNING", "ERROR", "CRITICAL"}

(* The configurations from_env has returned so far.                        *)
Resolved == {history[i].out.cfg : i \in {j \in Calls : history[j].out.ok}}

(* What precedence alone gives for field f under environment env: the      *)
(* environment's text if set, else the file's value, else the default.     *)
Winner(f, env) ==
    IF env[f] # None THEN PyStr(env[f])
    ELSE CASE f = "ENV" -> config_get(ENV, "env", PyStr("dev"))
           [] f = "DEBUG" -> config_getboolean(ENV, "debug", PyStr("false"))
           [] f = "HOST" -> config_get(ENV, "host", PyStr("127.0.0.1"))
           [] f = "PORT" -> config_getint(ENV, "port", PyInt(5000))
           [] f = "LOGGING_LEVEL" -> config_get(ENV, "logging_level", PyStr("INFO"))

(* The winner, coerced to the field's type.                                *)
Coerced(f, env) ==
    LET w == Winner(f, env)
    IN  IF w.t = "raise" THEN [ok |-> FALSE, v |-> None]
        ELSE CASE f = "DEBUG" -> validate_bool(w)
               [] f = "PORT" -> validate_int(w)
               [] OTHER -> validate_str(w)

PortAccepted(w) == w.t # "raise" /\ validate_int(w).ok /\ validate_int(w).v \in 1..65535
NoFileValues == ~os_file.readable \/ ENV \notin DOMAIN os_file.sections
NoEnvValues(env) == \A f \in Fields : env[f] = None
ExampleFrame ==
    [t |-> "DataFrame", columns |-> <<"A", "B">>, data |-> [A |-> <<1, 2>>, B |-> <<3, 4>>]]
ExampleRecords ==
    PyList(<<PyDict(<<<<"A", PyInt(1)>>, <<"B", PyInt(3)>>>>),
             PyDict(<<<<"A", PyInt(2)>>, <<"B", PyInt(4)>>>>)>>)
Converted == {"ndarray", "np.integer", "np.floating", "Timestamp", "DataFrame"}
FlaskConverted == {"date", "Decimal", "UUID", "dataclass", "Markup"}
SameEnvSameResult ==
    \A i, j \in Calls : history[i].env = history[j].env => history[i].out = history[j].out

(* C1: a POST /reload-config that ends in HTTP 500 leaves app.config equal *)
(* to what it was before the call.                                         *)
ClaimC1 ==
    response = Resp("/reload-config", 500) => app_config = Last(history).before

(* C2: however the request threads interleave, the five active fields are  *)
(* the result of one single call of from_env, never a mix of two, and the  *)
(* address runserver reads is the HOST and PORT of one such result.        *)
TheoremC2 ==
    phase = "serving" =>
        /\ Active(app_config) \in Resolved
        /\ bound # NotBound => \E c \in Resolved : bound = <<c.HOST, c.PORT>>

(* C2's case: two reloads overlap. One thread has resolved and not yet     *)
(* installed while another, with a different resolution, has installed.    *)
WitnessC2 ==
    \E t1, t2 \in Threads :
        /\ pc[t1] = "resolved"
        /\ pc[t2] \in {"installed", "logged"}
        /\ local[t1].cfg # local[t2].cfg
        /\ Active(app_config) = local[t2].cfg

(* C3: every field of a resolution is the coerced winner of the precedence *)
(* environment, then file, then default, whatever the file holds for a     *)
(* field the environment sets: the resolution succeeds exactly when every  *)
(* winner coerces, and then each field is its coerced winner.              *)
ClaimC3 ==
    \A i \in Calls :
        LET o == history[i].out
            e == history[i].env
        IN  /\ o.ok <=> \A f \in Fields : Coerced(f, e).ok
            /\ o.ok => \A f \in Fields : o.cfg[f] = Coerced(f, e).v

(* C4: a resolution, at startup or at reload, whose winning PORT is no     *)
(* base-10 integer in 1..65535 ends in an error.                           *)
ClaimC4 ==
    \A i \in Calls : history[i].out.ok => PortAccepted(Winner("PORT", history[i].env))

(* C5: after a successful startup and any reloads, the active              *)
(* LOGGING_LEVEL is one of DEBUG, INFO, WARNING, ERROR, CRITICAL.          *)
ClaimC5 ==
    phase = "serving" => app_config["LOGGING_LEVEL"].v \in StandardLevels

(* C6: without a readable file, or without the active section in it, and   *)
(* with none of the five variables set, from_env succeeds with exactly the *)
(* built-in defaults dev, false, 127.0.0.1, 5000, INFO.                    *)
TheoremC6 ==
    (history # <<>> /\ NoFileValues /\ NoEnvValues(history[1].env)) =>
        history[1].out = [ok |-> TRUE, cfg |-> Defaults]

(* C6's case: from_env has run with the file unreadable and no variable    *)
(* set.                                                                    *)
WitnessC6 ==
    /\ history # <<>>
    /\ ~os_file.readable
    /\ NoEnvValues(history[1].env)
    /\ history[1].out.ok

(* C7: when the resolution at startup fails, create_app raises and no app  *)
(* is produced; in every state after a failed startup no request has been  *)
(* served on any route.                                                    *)
TheoremC7 ==
    /\ (history # <<>> /\ ~history[1].out.ok) => phase = "failed"
    /\ phase = "failed" => response = NoResponse

(* C7's case: the startup failed, and the surroundings have changed since. *)
WitnessC7 ==
    /\ phase = "failed"
    /\ ~history[1].out.ok
    /\ Restrict(os_environ, Fields) # history[1].env

TheoremC10 == [](SameEnvSameResult) /\ [][config' = config /\ ENV' = ENV]_vars

(* C10's case: startup and a reload ran under the same five variables,     *)
(* while the file on disk and FLASK_ENV no longer are what was imported.   *)
WitnessC10 ==
    /\ Len(history) = 2
    /\ history[1].env = history[2].env
    /\ config # read(os_file)
    /\ os_environ["FLASK_ENV"] # None
    /\ ENV = "dev"
    /\ history[2].out.ok

====
